---- MODULE Spec2Model ----
(***************************************************************************)
(* AIAuditor backend: the three anomaly detectors of routers/models.py     *)
(* over the SQLite tables of database.py, fed by routers/data.py.          *)
(*                                                                         *)
(* Representation.                                                         *)
(*  - A Python str is a tuple of one-character strings, so that lower(),   *)
(*    re.sub and the `in` substring test are computed, not assumed.        *)
(*    Identifiers (tender_id, contract_id) are only compared, and stay     *)
(*    atomic.                                                              *)
(*  - A table is the sequence of its rows in rowid order; created_at is    *)
(*    the value of the clock `now` at the insert.                          *)
(*  - A REAL is a fixed-point integer in units of 1/Scale.  A Python float *)
(*    that can be NaN is a record [nan, v]; a nullable REAL column is a    *)
(*    tuple, <<>> for NULL and <<v>> for a value.                          *)
(*  - An explanation is the tuple of the fragments whose concatenation is  *)
(*    the Python string; the empty string is <<>>.                         *)
(***************************************************************************)
EXTENDS Integers, Sequences, FiniteSets, TLC

VARIABLES tenders, contracts, market_prices, audit_results, now, forest, tfidf, resp,
          requests, runs

vars == <<tenders, contracts, market_prices, audit_results, now, forest, tfidf, resp,
          requests, runs>>

(***************************************************************************)
(* Bounds of the model.                                                    *)
(***************************************************************************)
MaxTenders == 2
MaxContracts == 2
MaxMarket == 3
MaxClock == 1

\* the requests served in one behaviour
MaxRequests == 4

\* the detector runs that can be in flight at once
MaxRuns == 2

(***************************************************************************)
(* Generic helpers.                                                        *)
(***************************************************************************)
Range(s) == {s[i] : i \in 1..Len(s)}

Abs(n) == IF n < 0 THEN -n ELSE n

SetMax(S) == CHOOSE m \in S : \A n \in S : n <= m

SetMin(S) == CHOOSE m \in S : \A n \in S : m <= n

RECURSIVE SeqSum(_)
SeqSum(s) == IF s = <<>> THEN 0 ELSE Head(s) + SeqSum(Tail(s))

RECURSIVE Flatten(_)
Flatten(ss) == IF ss = <<>> THEN <<>> ELSE Head(ss) \o Flatten(Tail(ss))

Take(s, n) == SubSeq(s, 1, IF n < Len(s) THEN n ELSE Len(s))

\* the sequences over S of length lo..hi
SeqsOf(S, lo, hi) == UNION {[1..n -> S] : n \in lo..hi}

(***************************************************************************)
(* Python strings.                                                         *)
(***************************************************************************)
UpperChars == <<"A","B","C","D","E","F","G","H","I","J","K","L","M",
                "N","O","P","Q","R","S","T","U","V","W","X","Y","Z">>

LowerChars == <<"a","b","c","d","e","f","g","h","i","j","k","l","m",
                "n","o","p","q","r","s","t","u","v","w","x","y","z">>

DigitChars == <<"0","1","2","3","4","5","6","7","8","9">>

\* str.lower() on one character
LowerChar(c) ==
    IF \E i \in 1..Len(UpperChars) : UpperChars[i] = c
    THEN LowerChars[CHOOSE i \in 1..Len(UpperChars) : UpperChars[i] = c]
    ELSE c

\* str.lower()
lower(text) == [i \in 1..Len(text) |-> LowerChar(text[i])]

\* the Python test `sub in text`
Contains(sub, text) ==
    \E i \in 0..(Len(text) - Len(sub)) :
        \A j \in 1..Len(sub) : text[i + j] = sub[j]

\* sep.join(parts), as fragments
RECURSIVE join(_, _)
join(sep, parts) ==
    IF parts = <<>> THEN <<>>
    ELSE IF Len(parts) = 1 THEN <<Head(parts)>>
    ELSE <<Head(parts), sep>> \o join(sep, Tail(parts))

(***************************************************************************)
(* database.py: the four tables.                                           *)
(***************************************************************************)
\* SELECT * ... ORDER BY created_at DESC; rows of one second in rowid order
RECURSIVE order_by_created_at_desc(_)
order_by_created_at_desc(rows) ==
    IF rows = <<>> THEN <<>>
    ELSE LET latest == SetMax({rows[i].created_at : i \in 1..Len(rows)})
         IN  SelectSeq(rows, LAMBDA r : r.created_at = latest)
               \o order_by_created_at_desc(SelectSeq(rows, LAMBDA r : r.created_at # latest))

TenderDB_get_all(table) == order_by_created_at_desc(table)

ContractDB_get_all(table) == order_by_created_at_desc(table)

\* SELECT * FROM market_prices, no ORDER BY
MarketPriceDB_get_all(table) == table

AuditResultDB_get_all(table) == order_by_created_at_desc(table)

\* DELETE FROM audit_results: no WHERE clause
AuditResultDB_delete_all(table) == <<>>

\* sqlite3 binds a float NaN as NULL; a REAL column value is <<>> or <<v>>
NULL == <<>>

NaN == [nan |-> TRUE, v |-> 0]

Float(v) == [nan |-> FALSE, v |-> v]

sql_real(f) == IF f.nan THEN NULL ELSE <<f.v>>

\* INSERT INTO audit_results: result.get('contract_id') is None when absent
AuditResultDB_insert(table, result, t) ==
    Append(table, [tender_id     |-> result.tender_id,
                   contract_id   |-> IF "contract_id" \in DOMAIN result
                                     THEN <<result.contract_id>> ELSE NULL,
                   model_type    |-> result.model_type,
                   is_anomaly    |-> result.is_anomaly,
                   anomaly_score |-> sql_real(result.anomaly_score),
                   explanation   |-> result.explanation,
                   created_at    |-> t])

\* tender_id TEXT UNIQUE NOT NULL / contract_id TEXT UNIQUE NOT NULL:
\* the insert that repeats a key raises sqlite3.IntegrityError
violates_unique(table, key, row) == \E i \in 1..Len(table) : table[i][key] = row[key]

\* a loop of XxxDB.insert(row), each its own committed transaction, stopped
\* by the first insert that raises: [table, ok]
RECURSIVE insert_rows(_, _, _, _)
insert_rows(table, rows, key, t) ==
    IF rows = <<>> THEN [table |-> table, ok |-> TRUE]
    ELSE IF key # "" /\ violates_unique(table, key, Head(rows))
         THEN [table |-> table, ok |-> FALSE]
         ELSE insert_rows(Append(table, [Head(rows) EXCEPT !.created_at = t]),
                          Tail(rows), key, t)

(***************************************************************************)
(* The exception handlers of the routers.  An exception is a record        *)
(* [type, status_code]; fastapi.HTTPException is a subclass of Exception.  *)
(***************************************************************************)
HTTPException(code) == [type |-> "HTTPException", status_code |-> code]

OtherException == [type |-> "Exception", status_code |-> 0]

\* models.py, evaluation.py: `except Exception as e:
\*     raise HTTPException(status_code=500, detail=str(e))`
except_Exception(e) == HTTPException(500)

\* data.py import_data: `except HTTPException: raise` before `except Exception`
except_HTTPException_raise(e) ==
    IF e.type = "HTTPException" THEN e ELSE HTTPException(500)

\* the response of a handler that raised e inside its try block
\* `repeat` records that the response before this one was a success of the
\* same operation
Failure(op, e, handled) ==
    [op |-> op, status |-> handled.status_code, raised |-> e,
     total_processed |-> 0, anomalies_found |-> 0, repeat |-> FALSE]

Success(op, total, found) ==
    [op |-> op, status |-> 200, raised |-> [type |-> "", status_code |-> 0],
     total_processed |-> total, anomalies_found |-> found,
     repeat |-> resp.op = op /\ resp.status = 200]

(***************************************************************************)
(* routers/data.py: import_data.  csv is the parsed CSV, a sequence of     *)
(* rows.                                                                   *)
(***************************************************************************)
procurement_methods == <<"Open", "Restricted">>

\* the per-row checks of the 'tenders' branch
valid_tender_row(row) ==
    /\ row.tender_id # ""
    /\ row.tender_duration_days > 0
    /\ row.number_of_bidders >= 0
    /\ row.procurement_method \in Range(procurement_methods)

\* the per-row checks of the 'contracts' branch; total_value is derived
valid_contract_row(row) == row.unit_price > 0 /\ row.quantity > 0

\* the per-row checks of the 'market_prices' branch
valid_market_price_row(row) == row.unit_price > 0

valid_rows(dataType, csv) ==
    IF dataType = "tenders" THEN SelectSeq(csv, valid_tender_row)
    ELSE IF dataType = "contracts"
    THEN LET ok == SelectSeq(csv, valid_contract_row)
         IN  [i \in 1..Len(ok) |->
                [contract_id |-> ok[i].contract_id, tender_id |-> ok[i].tender_id,
                 item_description |-> ok[i].item_description,
                 unit_price |-> ok[i].unit_price, quantity |-> ok[i].quantity,
                 total_value |-> ok[i].unit_price * ok[i].quantity,
                 created_at |-> 0]]
    ELSE SelectSeq(csv, valid_market_price_row)

unique_key(dataType) ==
    IF dataType = "tenders" THEN "tender_id"
    ELSE IF dataType = "contracts" THEN "contract_id" ELSE ""

table_of(dataType) ==
    IF dataType = "tenders" THEN tenders
    ELSE IF dataType = "contracts" THEN contracts ELSE market_prices

capacity_of(dataType) ==
    IF dataType = "tenders" THEN MaxTenders
    ELSE IF dataType = "contracts" THEN MaxContracts ELSE MaxMarket

\* `forest` and `tfidf` remember what sklearn computed from the tenders table
\* as it is now (see the detectors); nothing is remembered of a table that is
\* gone, so that a later fit of an equal table is free to differ
no_fit == [input |-> <<>>, output |-> <<>>]

import_data(dataType, csv, clearExisting) ==
    LET rows == valid_rows(dataType, csv)
        base == IF clearExisting THEN <<>> ELSE table_of(dataType)
        done == insert_rows(base, rows, unique_key(dataType), now)
        e    == IF dataType \notin {"tenders", "contracts", "market_prices"}
                    \/ Len(csv) = 0 \/ Len(rows) = 0
                THEN HTTPException(400)
                ELSE OtherException
        failed == e.type = "HTTPException" \/ ~done.ok
        after == IF e.type = "HTTPException" THEN table_of(dataType) ELSE done.table
    IN  /\ Len(after) <= capacity_of(dataType)
        /\ tenders' = IF dataType = "tenders" THEN after ELSE tenders
        /\ contracts' = IF dataType = "contracts" THEN after ELSE contracts
        /\ market_prices' = IF dataType = "market_prices" THEN after ELSE market_prices
        /\ resp' = IF failed
                   THEN Failure("import", e, except_HTTPException_raise(e))
                   ELSE Success("import", Len(rows), 0)
        /\ forest' = IF dataType = "tenders" /\ after # tenders THEN no_fit ELSE forest
        /\ tfidf' = IF dataType = "tenders" /\ after # tenders THEN no_fit ELSE tfidf
        /\ UNCHANGED <<audit_results, now>>

\* CURRENT_TIMESTAMP moves on to the next second
Tick ==
    /\ now < MaxClock
    /\ now' = now + 1
    /\ UNCHANGED <<tenders, contracts, market_prices, audit_results, forest, tfidf, resp,
                   requests, runs>>

(***************************************************************************)
(* routers/models.py: what the three detectors share.                      *)
(***************************************************************************)
\* Where a run of a detector raises an unexpected exception (the case its
\* `except Exception` clause is there for): nowhere, while computing (before
\* the store is touched), or in the insert that follows k committed ones.
NoFault == [at |-> "none", k |-> 0]

Faults(n) == {NoFault, [at |-> "compute", k |-> 0]}
                \cup {[at |-> "insert", k |-> k] : k \in 0..(n - 1)}

\* the run that leaves the rows of earlier runs where they are
delete_prior_results_skipped(table, model_type) == table

\* audit_results = AuditResultDB.get_all()
\* for result in audit_results:
\*     if result['model_type'] == model_type: AuditResultDB.delete_all(); break
delete_prior_results(table, model_type) ==
    IF \E i \in 1..Len(AuditResultDB_get_all(table)) :
            AuditResultDB_get_all(table)[i].model_type = model_type
    THEN AuditResultDB_delete_all(table)
    ELSE table

\* the loop of AuditResultDB.insert over the results, in order
RECURSIVE insert_results(_, _, _)
insert_results(table, results, t) ==
    IF results = <<>> THEN table
    ELSE insert_results(AuditResultDB_insert(table, Head(results), t), Tail(results), t)

\* the store after the delete and the inserts of one run
store_results(table, model_type, results, fault, t) ==
    insert_results(delete_prior_results(table, model_type),
                   IF fault.at = "insert" THEN Take(results, fault.k) ELSE results,
                   t)

ComputeFaults == {NoFault, [at |-> "compute", k |-> 0]}

count_anomalies(results) ==
    Cardinality({i \in 1..Len(results) : results[i].is_anomaly})

(***************************************************************************)
(* detect_process_anomalies.                                               *)
(*                                                                         *)
(* sklearn's IsolationForest is outside the repository.  What the code     *)
(* fixes is its parameters: with random_state given, score_samples is a    *)
(* function of the feature matrix X.  The model keeps the function lazily: *)
(* `forest` remembers the scores of the last matrix fitted, a fit of       *)
(* another matrix draws them (`fresh`).  fit_predict flags the samples     *)
(* whose score is below offset_, the percentile 100 * contamination of the *)
(* scores.                                                                 *)
(***************************************************************************)
random_state == 42

\* contamination = 0.1, as the percentile 100 * contamination
contamination_percentile == 10

\* the labels a procurement_method column of the model can hold, in the
\* order of np.unique
sorted_labels == <<"Direct", "Open", "Restricted">>

\* LabelEncoder().fit_transform: the index of the label among the sorted
\* distinct labels of the column, from 0
LabelEncoder_fit_transform(column) ==
    LET classes == SelectSeq(sorted_labels, LAMBDA m : m \in Range(column))
    IN  [i \in 1..Len(column) |->
            (CHOOSE c \in 1..Len(classes) : classes[c] = column[i]) - 1]

\* X = df[['tender_duration_days', 'number_of_bidders', 'method_encoded']].values
feature_matrix(ts) ==
    LET encoded == LabelEncoder_fit_transform([i \in 1..Len(ts) |-> ts[i].procurement_method])
    IN  [i \in 1..Len(ts) |->
            <<ts[i].tender_duration_days, ts[i].number_of_bidders, encoded[i]>>]

RECURSIVE sort_ascending(_)
sort_ascending(s) ==
    IF s = <<>> THEN <<>>
    ELSE LET lowest == SetMin(Range(s))
         IN  SelectSeq(s, LAMBDA v : v = lowest)
               \o sort_ascending(SelectSeq(s, LAMBDA v : v # lowest))

\* 100 * np.percentile(a, q), linear interpolation between the two nearest ranks
percentile_x100(a, q) ==
    LET sorted == sort_ascending(a)
        pos    == (Len(a) - 1) * q
        lo     == (pos \div 100) + 1
        frac   == pos % 100
    IN  IF frac = 0 THEN 100 * sorted[lo]
        ELSE 100 * sorted[lo] + frac * (sorted[lo + 1] - sorted[lo])

\* the unseeded forest: every fit draws its trees anew
IsolationForest_score_samples_unseeded(memo, X, fresh) == fresh

\* iso_forest.score_samples(X) of the forest fitted to X with random_state
IsolationForest_score_samples(memo, X, fresh) ==
    IF memo.input = <<random_state, X>> THEN memo.output ELSE fresh

\* iso_forest.fit_predict(X) == -1, given the scores
IsolationForest_anomalies(scores) ==
    [i \in 1..Len(scores) |->
        100 * scores[i] < percentile_x100(scores, contamination_percentile)]

\* the rules with their boundaries moved: duration <= 14, bidders < 2
process_reasons_off_by_one(row) ==
    (IF row.tender_duration_days <= 14
     THEN <<(<<"Very short duration (", ToString(row.tender_duration_days), " days)">>)>>
     ELSE <<>>)
    \o (IF row.number_of_bidders < 2
        THEN <<(<<"Low competition (", ToString(row.number_of_bidders), " bidders)">>)>>
        ELSE <<>>)
    \o (IF row.procurement_method = "Restricted"
        THEN <<(<<"Restricted tender method">>)>>
        ELSE <<>>)

\* reasons, in the order the code appends them
process_reasons(row) ==
    (IF row.tender_duration_days < 14
     THEN <<(<<"Very short duration (", ToString(row.tender_duration_days), " days)">>)>>
     ELSE <<>>)
    \o (IF row.number_of_bidders <= 2
        THEN <<(<<"Low competition (", ToString(row.number_of_bidders), " bidders)">>)>>
        ELSE <<>>)
    \o (IF row.procurement_method = "Restricted"
        THEN <<(<<"Restricted tender method">>)>>
        ELSE <<>>)

\* the dict passed to AuditResultDB.insert for one tender
process_result(row, is_anomaly, score) ==
    [tender_id     |-> row.tender_id,
     model_type    |-> "process",
     is_anomaly    |-> is_anomaly,
     anomaly_score |-> Float(-score),
     explanation   |-> IF is_anomaly
                       THEN Flatten(join(<<" | ">>, process_reasons(row)))
                       ELSE <<"Normal procurement process">>]

detect_process_anomalies(fault, fresh) ==
    LET ts        == TenderDB_get_all(tenders)
        X         == feature_matrix(ts)
        scores    == IsolationForest_score_samples(forest, X, fresh)
        anomalies == IsolationForest_anomalies(scores)
        results   == [i \in 1..Len(ts) |-> process_result(ts[i], anomalies[i], scores[i])]
    IN  IF ts = <<>>
        THEN /\ fault = NoFault
             /\ resp' = Failure("process", HTTPException(404),
                                except_Exception(HTTPException(404)))
             /\ UNCHANGED <<tenders, contracts, market_prices, audit_results, now,
                            forest, tfidf>>
        ELSE IF fault.at = "compute"
        THEN /\ resp' = Failure("process", OtherException, except_Exception(OtherException))
             /\ UNCHANGED <<tenders, contracts, market_prices, audit_results, now,
                            forest, tfidf>>
        ELSE /\ fault.at = "insert" => fault.k < Len(ts)
             /\ forest' = [input |-> <<random_state, X>>, output |-> scores]
             /\ audit_results' = store_results(audit_results, "process", results, fault, now)
             /\ resp' = IF fault.at = "insert"
                        THEN Failure("process", OtherException,
                                     except_Exception(OtherException))
                        ELSE Success("process", Len(ts), count_anomalies(results))
             /\ UNCHANGED <<tenders, contracts, market_prices, now, tfidf>>

(***************************************************************************)
(* detect_price_anomalies.  A unit price p is the float p.0; the floats    *)
(* computed from prices (mean, std, z) are fixed-point, in 1/Scale.        *)
(***************************************************************************)
Scale == 100

\* abs(z_score) > 2.5, as 10 * |z| > 25
z_threshold_x10 == 25

\* the largest r with r * r <= n, by bisection of lo..hi
RECURSIVE isqrt_between(_, _, _)
isqrt_between(n, lo, hi) ==
    IF lo >= hi THEN lo
    ELSE LET mid == (lo + hi + 1) \div 2
         IN  IF mid * mid <= n THEN isqrt_between(n, mid, hi)
             ELSE isqrt_between(n, lo, mid - 1)

\* 46340 is the largest root of a 32-bit integer
isqrt(n) == isqrt_between(n, 0, IF n < 46340 THEN n ELSE 46340)

\* integer division rounding to the nearest, for operands of either sign
div_round(a, b) ==
    LET q == (2 * Abs(a) + Abs(b)) \div (2 * Abs(b))
    IN  IF (a < 0) = (b < 0) THEN q ELSE -q

\* re.sub(r'[^a-z0-9]', '', text.lower())
normalize_text(text) ==
    SelectSeq(lower(text), LAMBDA c : c \in Range(LowerChars) \cup Range(DigitChars))

\* market_df.groupby('item_normalized')['unit_price'].agg(mean, std, count):
\* the rows of market_stats; std is the sample standard deviation (ddof = 1),
\* NaN for a group of one
market_stats(ms) ==
    LET keys == {normalize_text(ms[i].item_name) : i \in 1..Len(ms)}
        group(k) == SelectSeq(ms, LAMBDA m : normalize_text(m.item_name) = k)
        prices(k) == [i \in 1..Len(group(k)) |-> group(k)[i].unit_price]
        n(k) == Len(group(k))
        sum(k) == SeqSum(prices(k))
        sumsq(k) == SeqSum([i \in 1..n(k) |-> prices(k)[i] * prices(k)[i]])
    IN  {[item_normalized |-> k,
          mean  |-> Float(div_round(sum(k) * Scale, n(k))),
          std   |-> IF n(k) < 2 THEN NaN
                    ELSE Float(isqrt(((n(k) * sumsq(k) - sum(k) * sum(k)) * Scale * Scale)
                                        \div (n(k) * (n(k) - 1)))),
          count |-> n(k)] : k \in keys}

\* f"{v:.1f}", f"{v:.2f}", f"{v:,.0f}" of a fixed-point v, as fragments
RECURSIVE group_thousands(_)
group_thousands(n) ==
    IF n < 1000 THEN <<ToString(n)>>
    ELSE group_thousands(n \div 1000)
           \o <<",", ToString((n % 1000) \div 100), ToString((n % 100) \div 10),
                ToString(n % 10)>>

format_float(f, digits, grouped) ==
    IF f.nan THEN <<"nan">>
    ELSE LET unit == IF digits = 0 THEN 1 ELSE IF digits = 1 THEN 10 ELSE 100
             r == div_round(f.v * unit, Scale)
             whole == Abs(r) \div unit
             frac == Abs(r) % unit
         IN  (IF r < 0 THEN <<"-">> ELSE <<>>)
             \o (IF grouped THEN group_thousands(whole) ELSE <<ToString(whole)>>)
             \o (IF digits = 0 THEN <<>>
                 ELSE IF digits = 1 THEN <<".", ToString(frac)>>
                 ELSE <<".", ToString(frac \div 10), ToString(frac % 10)>>)

\* z_score of a contract against its stats row
z_score(unit_price, stats_row) ==
    IF ~stats_row.std.nan /\ stats_row.std.v = 0 THEN Float(0)
    ELSE IF stats_row.std.nan THEN NaN
    ELSE Float(div_round((unit_price * Scale - stats_row.mean.v) * Scale, stats_row.std.v))

\* the comparison made inclusive
exceeds_threshold_inclusive(z) == ~z.nan /\ 10 * Abs(z.v) >= z_threshold_x10 * Scale

\* abs(z_score) > 2.5; a comparison with NaN is False
exceeds_threshold(z) == ~z.nan /\ 10 * Abs(z.v) > z_threshold_x10 * Scale

price_explanation(contract, stats_row, z) ==
    LET mean == stats_row.mean.v
        dev  == contract.unit_price * Scale - mean
    IN  IF exceeds_threshold(z)
        THEN IF z.v > 0
             THEN <<"Price ">> \o format_float(Float(div_round(dev * 100 * Scale, mean)), 1, FALSE)
                    \o <<"% ABOVE market average (Z-score: ">> \o format_float(z, 2, FALSE)
                    \o <<"). Potential overpayment of KES ">>
                    \o format_float(Float(dev * contract.quantity), 0, TRUE)
             ELSE <<"Price ">> \o format_float(Float(div_round((-dev) * 100 * Scale, mean)), 1, FALSE)
                    \o <<"% BELOW market average (Z-score: ">> \o format_float(z, 2, FALSE)
                    \o <<"). Unusually low price may indicate quality concerns">>
        ELSE <<"Price within normal range (Z-score: ">> \o format_float(z, 2, FALSE) \o <<")">>

\* a contract without a population scored as if the population were mean 0, std 1
unmatched_result_scored(contract) ==
    [tender_id |-> contract.tender_id, contract_id |-> contract.contract_id,
     model_type |-> "price",
     is_anomaly |-> 10 * contract.unit_price > z_threshold_x10,
     anomaly_score |-> Float(contract.unit_price * Scale),
     explanation |-> <<"No market data available for ">> \o contract.item_description]

\* the branch `len(stats_row) == 0`
unmatched_result(contract) ==
    [tender_id |-> contract.tender_id, contract_id |-> contract.contract_id,
     model_type |-> "price", is_anomaly |-> FALSE, anomaly_score |-> Float(0),
     explanation |-> <<"No market data available for ">> \o contract.item_description]

\* the dict passed to AuditResultDB.insert for one contract
price_result(contract, stats) ==
    LET item_norm == normalize_text(contract.item_description)
        stats_row == {r \in stats : r.item_normalized = item_norm}
    IN  IF stats_row = {}
        THEN unmatched_result(contract)
        ELSE LET row == CHOOSE r \in stats_row : TRUE
                 z   == z_score(contract.unit_price, row)
             IN  [tender_id |-> contract.tender_id, contract_id |-> contract.contract_id,
                  model_type |-> "price", is_anomaly |-> exceeds_threshold(z),
                  anomaly_score |-> IF z.nan THEN NaN ELSE Float(Abs(z.v)),
                  explanation |-> price_explanation(contract, row, z)]

\* the handler that clears the store before it looks at its input
detect_price_anomalies_clearing_first(fault) ==
    LET cs      == ContractDB_get_all(contracts)
        ms      == MarketPriceDB_get_all(market_prices)
        stats   == market_stats(ms)
        results == [i \in 1..Len(cs) |-> price_result(cs[i], stats)]
    IN  IF cs = <<>> \/ ms = <<>>
        THEN /\ fault = NoFault
             /\ resp' = Failure("price", HTTPException(404),
                                except_Exception(HTTPException(404)))
             /\ audit_results' = AuditResultDB_delete_all(audit_results)
             /\ UNCHANGED <<tenders, contracts, market_prices, now, forest, tfidf>>
        ELSE IF fault.at = "compute"
        THEN /\ resp' = Failure("price", OtherException, except_Exception(OtherException))
             /\ UNCHANGED <<tenders, contracts, market_prices, audit_results, now,
                            forest, tfidf>>
        ELSE /\ fault.at = "insert" => fault.k < Len(cs)
             /\ audit_results' = store_results(audit_results, "price", results, fault, now)
             /\ resp' = IF fault.at = "insert"
                        THEN Failure("price", OtherException,
                                     except_Exception(OtherException))
                        ELSE Success("price", Len(cs), count_anomalies(results))
             /\ UNCHANGED <<tenders, contracts, market_prices, now, forest, tfidf>>

detect_price_anomalies(fault) ==
    LET cs      == ContractDB_get_all(contracts)
        ms      == MarketPriceDB_get_all(market_prices)
        stats   == market_stats(ms)
        results == [i \in 1..Len(cs) |-> price_result(cs[i], stats)]
    IN  IF cs = <<>> \/ ms = <<>>
        THEN /\ fault = NoFault
             /\ resp' = Failure("price", HTTPException(404),
                                except_Exception(HTTPException(404)))
             /\ UNCHANGED <<tenders, contracts, market_prices, audit_results, now,
                            forest, tfidf>>
        ELSE IF fault.at = "compute"
        THEN /\ resp' = Failure("price", OtherException, except_Exception(OtherException))
             /\ UNCHANGED <<tenders, contracts, market_prices, audit_results, now,
                            forest, tfidf>>
        ELSE /\ fault.at = "insert" => fault.k < Len(cs)
             /\ audit_results' = store_results(audit_results, "price", results, fault, now)
             /\ resp' = IF fault.at = "insert"
                        THEN Failure("price", OtherException,
                                     except_Exception(OtherException))
                        ELSE Success("price", Len(cs), count_anomalies(results))
             /\ UNCHANGED <<tenders, contracts, market_prices, now, forest, tfidf>>

(***************************************************************************)
(* detect_text_anomalies.                                                  *)
(*                                                                         *)
(* sklearn's TfidfVectorizer and cosine_similarity are outside the         *)
(* repository.  The similarity matrix is a function of the corpus, kept    *)
(* lazily in `tfidf` like the forest: symmetric, equal texts have equal    *)
(* rows.  A similarity is fixed-point in 1/Scale.  The product of a        *)
(* normalised float vector with itself is 1.0 only up to rounding: the     *)
(* diagonal is drawn from the values the caller gives (Scale - 1 stands    *)
(* for 0.9999999999999998, Scale + 1 for 1.0000000000000002).              *)
(***************************************************************************)
\* a keyword with the fragment that names it in an explanation
brand_keywords ==
   <<
      [name |-> "herman miller", chars |-> <<"h","e","r","m","a","n"," ","m","i","l","l","e","r">>],
      [name |-> "dell", chars |-> <<"d","e","l","l">>],
      [name |-> "hp", chars |-> <<"h","p">>],
      [name |-> "lenovo", chars |-> <<"l","e","n","o","v","o">>],
      [name |-> "apple", chars |-> <<"a","p","p","l","e">>],
      [name |-> "microsoft", chars |-> <<"m","i","c","r","o","s","o","f","t">>],
      [name |-> "samsung", chars |-> <<"s","a","m","s","u","n","g">>],
      [name |-> "lg", chars |-> <<"l","g">>],
      [name |-> "sony", chars |-> <<"s","o","n","y">>],
      [name |-> "canon", chars |-> <<"c","a","n","o","n">>],
      [name |-> "epson", chars |-> <<"e","p","s","o","n">>],
      [name |-> "toyota", chars |-> <<"t","o","y","o","t","a">>],
      [name |-> "nissan", chars |-> <<"n","i","s","s","a","n">>],
      [name |-> "ford", chars |-> <<"f","o","r","d">>],
      [name |-> "mercedes", chars |-> <<"m","e","r","c","e","d","e","s">>],
      [name |-> "bmw", chars |-> <<"b","m","w">>],
      [name |-> "cisco", chars |-> <<"c","i","s","c","o">>],
      [name |-> "intel", chars |-> <<"i","n","t","e","l">>],
      [name |-> "amd", chars |-> <<"a","m","d">>],
      [name |-> "oracle", chars |-> <<"o","r","a","c","l","e">>]
   >>

\* similarities > 0.85, as 100 * s > 85
collusion_floor_x100 == 85

\* df['tender_description'] + ' ' + df['technical_specs'].fillna('')
combined_text(row) == row.tender_description \o <<" ">> \o row.technical_specs

index_pairs(n) == {p \in (1..n) \X (1..n) : p[1] < p[2]}

\* the matrices cosine_similarity can return for these texts
similarity_matrices(texts, diag, off) ==
    LET n == Len(texts)
        symmetric(d, o) == [i \in 1..n |-> [j \in 1..n |->
                              IF i = j THEN d[i]
                              ELSE IF i < j THEN o[<<i, j>>] ELSE o[<<j, i>>]]]
    IN  {m \in {symmetric(d, o) : d \in [1..n -> diag], o \in [index_pairs(n) -> off]} :
            \A i, j \in 1..n : texts[i] = texts[j] => m[i] = m[j]}

\* cosine_similarity(vectorizer.fit_transform(df['combined_text']))
cosine_similarity(memo, texts, fresh) ==
    IF memo.input = texts THEN memo.output ELSE fresh

\* the scan without .lower()
detected_brands_case_sensitive(text) ==
    SelectSeq(brand_keywords, LAMBDA b : Contains(b.chars, text))

\* [brand for brand in brand_keywords if brand in combined_lower]
detected_brands(text) ==
    LET combined_lower == lower(text)
    IN  SelectSeq(brand_keywords, LAMBDA b : Contains(b.chars, combined_lower))

\* np.where((similarities > 0.85) & (similarities < 1.0))[0]
similar_indices(similarities) ==
    SelectSeq([i \in 1..Len(similarities) |-> i],
              LAMBDA i : /\ 100 * similarities[i] > collusion_floor_x100 * Scale
                         /\ similarities[i] < Scale)

\* the confidence without the cap
text_confidence_uncapped(has_brand_bias, similarities, matches) ==
    (IF has_brand_bias THEN Scale \div 2 ELSE 0)
    + (IF Len(matches) > 0
       THEN SetMax({similarities[matches[k]] : k \in 1..Len(matches)})
       ELSE 0)

\* min(confidence, 1.0)
text_confidence(has_brand_bias, similarities, matches) ==
    LET brand == IF has_brand_bias THEN Scale \div 2 ELSE 0
        best  == IF Len(matches) > 0
                 THEN SetMax({similarities[matches[k]] : k \in 1..Len(matches)})
                 ELSE 0
    IN  IF brand + best < Scale THEN brand + best ELSE Scale

\* the dict passed to AuditResultDB.insert for the tender at idx
text_result(ts, idx, similarities) ==
    LET brands   == detected_brands(combined_text(ts[idx]))
        matches  == similar_indices(similarities)
        has_brand_bias == Len(brands) > 0
        has_collusion  == Len(matches) > 0
        similar_tenders == [k \in 1..Len(matches) |-> ts[matches[k]].tender_id]
        explanations ==
            (IF has_brand_bias
             THEN <<(<<"Brand bias detected: ">>
                       \o join(", ", [k \in 1..Len(brands) |-> brands[k].name]))>>
             ELSE <<>>)
            \o (IF has_collusion
                THEN <<(<<"High similarity to ", ToString(Len(matches)), " other tender(s): ">>
                          \o join(", ", Take(similar_tenders, 3)))>>
                ELSE <<>>)
    IN  [tender_id |-> ts[idx].tender_id,
         model_type |-> "text",
         is_anomaly |-> has_brand_bias \/ has_collusion,
         anomaly_score |-> Float(text_confidence(has_brand_bias, similarities, matches)),
         explanation |-> IF has_brand_bias \/ has_collusion
                         THEN Flatten(join(<<" | ">>, explanations))
                         ELSE <<"No text anomalies detected">>]

detect_text_anomalies(fault, diag, off) ==
    LET ts    == TenderDB_get_all(tenders)
        texts == [i \in 1..Len(ts) |-> combined_text(ts[i])]
    IN  IF ts = <<>>
        THEN /\ fault = NoFault
             /\ resp' = Failure("text", HTTPException(404),
                                except_Exception(HTTPException(404)))
             /\ UNCHANGED <<tenders, contracts, market_prices, audit_results, now,
                            forest, tfidf>>
        ELSE IF fault.at = "compute"
        THEN /\ resp' = Failure("text", OtherException, except_Exception(OtherException))
             /\ UNCHANGED <<tenders, contracts, market_prices, audit_results, now,
                            forest, tfidf>>
        ELSE \E fresh \in (IF tfidf.input = texts THEN {tfidf.output}
                            ELSE similarity_matrices(texts, diag, off)) :
             LET similarity_matrix == cosine_similarity(tfidf, texts, fresh)
                 results == [i \in 1..Len(ts) |-> text_result(ts, i, similarity_matrix[i])]
             IN  /\ fault.at = "insert" => fault.k < Len(ts)
                 /\ tfidf' = [input |-> texts, output |-> similarity_matrix]
                 /\ audit_results' = store_results(audit_results, "text", results, fault, now)
                 /\ resp' = IF fault.at = "insert"
                            THEN Failure("text", OtherException,
                                         except_Exception(OtherException))
                            ELSE Success("text", Len(ts), count_anomalies(results))
                 /\ UNCHANGED <<tenders, contracts, market_prices, now, forest>>

(***************************************************************************)
(* The requests a client can send, and the data they carry.                *)
(***************************************************************************)
Tender(id, method, duration, bidders, description, specs) ==
    [tender_id |-> id, procurement_method |-> method,
     tender_duration_days |-> duration, number_of_bidders |-> bidders,
     tender_description |-> description, technical_specs |-> specs, created_at |-> 0]

Contract(id, tender, item, price, quantity) ==
    [contract_id |-> id, tender_id |-> tender, item_description |-> item,
     unit_price |-> price, quantity |-> quantity, created_at |-> 0]

MarketPrice(item, price) == [item_name |-> item, unit_price |-> price, created_at |-> 0]

\* CSV rows of the store-level specification; T3 fails validation
TenderRows ==
    {Tender("T1", "Restricted", 5, 1, <<"D","e","l","l">>, <<>>),
     Tender("T2", "Open", 10, 2, <<"p","c">>, <<"H","P">>),
     Tender("T3", "Direct", 10, 2, <<"p","c">>, <<>>)}

ContractRows ==
    {Contract("C1", "T1", <<"A","-","1">>, 130, 2),
     Contract("C2", "T2", <<"b">>, 100, 1)}

MarketPriceRows == {MarketPrice(<<"a","1">>, 90)}

\* score_samples values a fit can return
IsoScores == {-6, -5}

MaxBatch == 2

\* A run of a detector in flight: where it is in its handler and the locals
\* it holds (the results it computed, whether its scan of the store found
\* rows of its model type, the number of results it has inserted).
Runs == 1..MaxRuns

IdleRun == [pc |-> "idle", results |-> <<>>, found |-> FALSE, k |-> 0]

Init ==
    /\ tenders = <<>>
    /\ contracts = <<>>
    /\ market_prices = <<>>
    /\ audit_results = <<>>
    /\ now = 0
    /\ forest = no_fit
    /\ tfidf = no_fit
    /\ resp = [op |-> "init", status |-> 200, raised |-> [type |-> "", status_code |-> 0],
               total_processed |-> 0, anomalies_found |-> 0, repeat |-> FALSE]
    /\ requests = 0
    /\ runs = [r \in Runs |-> IdleRun]

\* one more request is served, by a handler that runs to its end
Served == requests < MaxRequests /\ requests' = requests + 1 /\ UNCHANGED runs

ImportTenders ==
    /\ Served
    /\ \E csv \in SeqsOf(TenderRows, 1, MaxBatch), clearExisting \in BOOLEAN :
        import_data("tenders", csv, clearExisting)

ImportContracts ==
    /\ Served
    /\ \E csv \in SeqsOf(ContractRows, 1, MaxBatch), clearExisting \in BOOLEAN :
        import_data("contracts", csv, clearExisting)

ImportMarketPrices ==
    /\ Served
    /\ \E csv \in SeqsOf(MarketPriceRows, 1, 1) : import_data("market_prices", csv, TRUE)

ProcessAnomaly ==
    /\ Served
    /\ \E fault \in ComputeFaults, fresh \in [1..Len(tenders) -> IsoScores] :
        detect_process_anomalies(fault, fresh)

PriceAnomaly ==
    /\ Served
    /\ \E fault \in ComputeFaults : detect_price_anomalies(fault)

TextAnomaly ==
    /\ Served
    /\ \E fault \in ComputeFaults : detect_text_anomalies(fault, {Scale}, {(9 * Scale) \div 10})

Next ==
    \/ ImportTenders
    \/ ImportContracts
    \/ ImportMarketPrices
    \/ ProcessAnomaly
    \/ PriceAnomaly
    \/ TextAnomaly

Spec == Init /\ [][Next]_vars

(***************************************************************************)
(* Properties of the result store.                                         *)
(***************************************************************************)
Detectors == {"process", "price", "text"}

rows_of(model_type, table) == SelectSeq(table, LAMBDA r : r.model_type = model_type)

\* a result row without the columns the database fills in
content(rows) ==
    [i \in 1..Len(rows) |->
        [tender_id |-> rows[i].tender_id, contract_id |-> rows[i].contract_id,
         model_type |-> rows[i].model_type, is_anomaly |-> rows[i].is_anomaly,
         anomaly_score |-> rows[i].anomaly_score, explanation |-> rows[i].explanation]]

\* this step served a request to detector X
RunOf(X) == requests' # requests /\ resp'.op = X

\* C1: a run of a detector leaves the rows of the two other model types as
\* they were.
C1_OtherModelTypesKept ==
    [][\A X \in Detectors : RunOf(X) =>
          \A Y \in Detectors \ {X} :
              rows_of(Y, audit_results') = rows_of(Y, audit_results)]_vars

\* the keys of the records detector X reads, and of the rows it has stored
input_keys(X) ==
    IF X = "price" THEN [i \in 1..Len(contracts) |-> <<contracts[i].contract_id>>]
    ELSE [i \in 1..Len(tenders) |-> <<tenders[i].tender_id>>]

stored_keys(X) ==
    LET rows == rows_of(X, audit_results)
    IN  [i \in 1..Len(rows) |->
            IF X = "price" THEN rows[i].contract_id ELSE <<rows[i].tender_id>>]

\* C2: right after a successful run of detector X, the stored rows of model
\* type X are one row per tender (process, text) or per contract (price) now
\* in the table, none of them twice and none of an earlier run left over.
C2_ResultsReflectDataset ==
    \A X \in Detectors :
        resp.op = X /\ resp.status = 200 =>
            /\ Len(stored_keys(X)) = Len(input_keys(X))
            /\ Range(stored_keys(X)) = Range(input_keys(X))

\* a successful run of the process detector on a tenders table that has
\* changed since an earlier detector run: a row of that run names a tender
\* that is gone
C2_Witness ==
    /\ resp.op = "process" /\ resp.status = 200
    /\ rows_of("process", audit_results) # <<>>
    /\ \E i \in 1..Len(audit_results) :
          /\ audit_results[i].model_type = "text"
          /\ <<audit_results[i].tender_id>> \notin Range(input_keys("text"))

\* the status of the computation-failure response
computation_failure_status == except_Exception(OtherException).status_code

\* the operation answered a request while a table it requires was empty
EmptyInput ==
    \/ resp.op \in {"process", "text"} /\ tenders = <<>>
    \/ resp.op = "price" /\ (contracts = <<>> \/ market_prices = <<>>)

\* C3: an operation whose required input is empty answers with a status
\* other than that of the generic computation failure.
C3_NotFoundStatusDistinct ==
    EmptyInput => resp.status # computation_failure_status

\* C4: a detector run again right after its own successful run, on the same
\* data, stores the same rows of its model type.
C4_RerunStoresSameRows ==
    [][\A X \in Detectors :
          (RunOf(X) /\ resp'.status = 200 /\ resp'.repeat) =>
              content(rows_of(X, audit_results')) = content(rows_of(X, audit_results))]_vars

\* a rerun of the process detector that flags a tender
C4_Witness ==
    /\ resp.op = "process" /\ resp.status = 200 /\ resp.repeat
    /\ \E i \in 1..Len(audit_results) :
          audit_results[i].model_type = "process" /\ audit_results[i].is_anomaly

(***************************************************************************)
(* The price detector on its own: contracts and market prices that give    *)
(* every branch of the z-score something to do.  The population of key     *)
(* "a1" can be {90, 100, 110}: mean 100, standard deviation 10.            *)
(***************************************************************************)
PriceContractRows ==
    {Contract("C1", "T1", <<"A","-","1">>, 130, 2),
     Contract("C2", "T1", <<"A","-","1">>, 125, 2),
     Contract("C1", "T1", <<"a","1">>, 70, 1),
     Contract("C2", "T2", <<"C">>, 50, 3)}

\* the CSV files of market prices: a population of three, of two equal
\* prices, of one price
PriceMarketCsvs ==
    {<<MarketPrice(<<"a","1">>, 90), MarketPrice(<<"A"," ","1">>, 100),
       MarketPrice(<<"a","_","1">>, 110)>>,
     <<MarketPrice(<<"a","1">>, 100), MarketPrice(<<"A","1">>, 100)>>,
     <<MarketPrice(<<"c">>, 50)>>}

ImportPriceContracts ==
    /\ Served
    /\ \E csv \in SeqsOf(PriceContractRows, 1, 1), clearExisting \in BOOLEAN :
        import_data("contracts", csv, clearExisting)

ImportPriceMarket ==
    /\ Served
    /\ \E csv \in PriceMarketCsvs, clearExisting \in BOOLEAN :
        import_data("market_prices", csv, clearExisting)

PriceAnomalyFaulty ==
    /\ Served
    /\ \E fault \in Faults(Len(contracts)) : detect_price_anomalies(fault)

NextPrice ==
    \/ ImportPriceContracts
    \/ ImportPriceMarket
    \/ PriceAnomalyFaulty

SpecPrice == Init /\ [][NextPrice]_vars

(***************************************************************************)
(* Properties of the price detector, stated on the prices themselves: with *)
(* n market prices of sum S and sum of squares Q under a key, the mean is  *)
(* S / n and the sample variance (n * Q - S * S) / (n * (n - 1)).          *)
(***************************************************************************)
\* the key of an item: lower-cased, everything but letters and digits removed
RECURSIVE ItemKey(_)
ItemKey(text) ==
    IF text = <<>> THEN <<>>
    ELSE LET c == LowerChar(Head(text))
         IN  (IF c \in Range(LowerChars) \cup Range(DigitChars) THEN <<c>> ELSE <<>>)
               \o ItemKey(Tail(text))

\* the market prices filed under the key of a contract
Population(contract) ==
    LET same == SelectSeq(market_prices,
                          LAMBDA m : ItemKey(m.item_name) = ItemKey(contract.item_description))
    IN  [i \in 1..Len(same) |-> same[i].unit_price]

\* the stored price row of a contract, after a successful run
PriceRowOf(contract) ==
    CHOOSE r \in Range(rows_of("price", audit_results)) :
        r.contract_id = <<contract.contract_id>>

PriceRunDone == resp.op = "price" /\ resp.status = 200

\* C5: a contract whose key matches no market key is stored as not
\* anomalous with score 0, whatever its unit price.
C5_UnmatchedNotAnomalous ==
    PriceRunDone =>
        \A i \in 1..Len(contracts) :
            Population(contracts[i]) = <<>> =>
                /\ PriceRowOf(contracts[i]).is_anomaly = FALSE
                /\ PriceRowOf(contracts[i]).anomaly_score = <<0>>

\* a run that stored an unmatched contract beside a matched, anomalous one
C5_Witness ==
    /\ PriceRunDone
    /\ \E i, j \in 1..Len(contracts) :
          /\ Population(contracts[i]) = <<>> /\ contracts[i].unit_price > 0
          /\ Population(contracts[j]) # <<>> /\ PriceRowOf(contracts[j]).is_anomaly

\* |z| > 2.5 on the exact quantities: 4 (n p - S)^2 (n - 1) > 25 n (n Q - S^2)
ExactlyAboveThreshold(p, pop) ==
    LET n == Len(pop)
        S == SeqSum(pop)
        Q == SeqSum([i \in 1..n |-> pop[i] * pop[i]])
    IN  /\ n >= 2
        /\ n * Q - S * S > 0
        /\ 4 * (n * p - S) * (n * p - S) * (n - 1) > 25 * n * (n * Q - S * S)

\* s / Scale is |p - mean| / std to within 2 / Scale
ScoreIsAbsZ(s, p, pop) ==
    LET n == Len(pop)
        S == SeqSum(pop)
        Q == SeqSum([i \in 1..n |-> pop[i] * pop[i]])
        dev2 == Scale * Scale * (n * p - S) * (n * p - S) * (n - 1)
        var  == n * (n * Q - S * S)
        low  == IF s > 2 THEN s - 2 ELSE 0
    IN  low * low * var <= dev2 /\ dev2 <= (s + 2) * (s + 2) * var

\* C6: with a matching population, z is 0 when the standard deviation is 0
\* and (unit_price - mean) / std otherwise; the contract is flagged iff
\* |z| > 2.5, strictly; mean 100, std 10 and price 130 give 3.0, flagged.
C6_ZScoreAndThreshold ==
    PriceRunDone =>
        \A i \in 1..Len(contracts) :
            LET c   == contracts[i]
                pop == Population(c)
                n   == Len(pop)
                S   == SeqSum(pop)
                Q   == SeqSum([k \in 1..n |-> pop[k] * pop[k]])
                row == PriceRowOf(c)
            IN  n >= 1 =>
                  /\ row.is_anomaly = ExactlyAboveThreshold(c.unit_price, pop)
                  /\ (n >= 2 /\ n * Q = S * S) => row.anomaly_score = <<0>>
                  /\ (n >= 2 /\ n * Q # S * S) =>
                        /\ row.anomaly_score # NULL
                        /\ ScoreIsAbsZ(row.anomaly_score[1], c.unit_price, pop)
                  /\ (n = 3 /\ S = 300 /\ Q = 30200 /\ c.unit_price = 130) =>
                        row.is_anomaly /\ row.anomaly_score = <<3 * Scale>>

\* the population {90, 100, 110} with a contract at 130 (z = 3.0, flagged)
\* and a contract at 125 (z = 2.5, not flagged)
C6_Witness ==
    /\ PriceRunDone
    /\ \E i, j \in 1..Len(contracts) :
          /\ SeqSum(Population(contracts[i])) = 300 /\ Len(Population(contracts[i])) = 3
          /\ contracts[i].unit_price = 130
          /\ PriceRowOf(contracts[i]).is_anomaly
          /\ PriceRowOf(contracts[i]).anomaly_score = <<3 * Scale>>
          /\ contracts[j].unit_price = 125
          /\ Population(contracts[j]) = Population(contracts[i])
          /\ ~PriceRowOf(contracts[j]).is_anomaly
          /\ 2 * PriceRowOf(contracts[j]).anomaly_score[1] = 5 * Scale

(***************************************************************************)
(* The text detector on its own.  Tenders whose texts name a brand in      *)
(* mixed case, across the join of description and specs, twice, inside a   *)
(* word, or not at all; similarities on both sides of 0.85 and of 1.0.     *)
(***************************************************************************)
TextTenderRows ==
    {Tender("T1", "Open", 20, 3, <<"D","e","L","L">>, <<>>),
     Tender("T1", "Open", 20, 3, <<"p","c">>, <<>>),
     Tender("T2", "Open", 20, 3, <<"h","e","r","m","a","n">>, <<"M","i","l","l","e","r">>),
     Tender("T2", "Open", 20, 3, <<"H","P"," ","a","l","g","a">>, <<>>),
     Tender("T2", "Open", 20, 3, <<"p","c">>, <<>>)}

\* self-similarities: 1.0, and the float next below it
SimDiagonal == {Scale - 1, Scale}

\* similarities of two tenders: 0.85, 0.90, and those of two equal texts
SimOffDiagonal == {(85 * Scale) \div 100, (90 * Scale) \div 100, Scale - 1, Scale}

ImportTextTenders ==
    /\ Served
    /\ \E csv \in SeqsOf(TextTenderRows, 1, 1), clearExisting \in BOOLEAN :
        import_data("tenders", csv, clearExisting)

TextAnomalyFaulty ==
    /\ Served
    /\ \E fault \in Faults(Len(tenders)) :
        detect_text_anomalies(fault, SimDiagonal, SimOffDiagonal)

NextText ==
    \/ ImportTextTenders
    \/ Tick
    \/ TextAnomalyFaulty

SpecText == Init /\ [][NextText]_vars

(***************************************************************************)
(* The process detector on its own: tenders on both sides of each rule.    *)
(***************************************************************************)
ProcessTenderRows ==
    {Tender("T1", method, duration, bidders, <<"p","c">>, <<>>) :
        method \in Range(procurement_methods), duration \in {13, 14}, bidders \in {2, 3}}
    \cup {Tender("T2", "Open", 13, 3, <<"p","c">>, <<>>)}

ImportProcessTenders ==
    /\ Served
    /\ \E csv \in SeqsOf(ProcessTenderRows, 1, 1), clearExisting \in BOOLEAN :
        import_data("tenders", csv, clearExisting)

ProcessAnomalyFaulty ==
    /\ Served
    /\ \E fault \in Faults(Len(tenders)), fresh \in [1..Len(tenders) -> IsoScores] :
        detect_process_anomalies(fault, fresh)

NextProcess ==
    \/ ImportProcessTenders
    \/ Tick
    \/ ProcessAnomalyFaulty

SpecProcess == Init /\ [][NextProcess]_vars

(***************************************************************************)
(* Properties of the text detector.  After a successful run `tfidf` holds  *)
(* the similarity matrix the run used, indexed like TenderDB.get_all().    *)
(***************************************************************************)
TextRunDone == resp.op = "text" /\ resp.status = 200

TextRowOf(tender) ==
    CHOOSE r \in Range(rows_of("text", audit_results)) : r.tender_id = tender.tender_id

\* sub occurs in text
Occurs(sub, text) ==
    \E i \in 1..(Len(text) - Len(sub) + 1) : SubSeq(text, i, i + Len(sub) - 1) = sub

\* description, a space, technical_specs, in lower case
LoweredText(tender) ==
    LET text == tender.tender_description \o <<" ">> \o tender.technical_specs
    IN  [i \in 1..Len(text) |-> LowerChar(text[i])]

BrandMarker == "Brand bias detected: "

CollusionMarker == "High similarity to "

\* strictly between 0.85 and 1.0
InBand(similarity) == 100 * similarity > 85 * Scale /\ similarity < Scale

\* C7: a tender is flagged for brand bias iff its lower-cased combined text
\* contains a keyword of the list, and the explanation names every keyword it
\* contains (and no other).
C7_BrandBias ==
    TextRunDone =>
        \A i \in 1..Len(tenders) :
            LET text == LoweredText(tenders[i])
                row  == TextRowOf(tenders[i])
                matched == {k \in 1..Len(brand_keywords) : Occurs(brand_keywords[k].chars, text)}
            IN  /\ (BrandMarker \in Range(row.explanation)) <=> (matched # {})
                /\ matched # {} => row.is_anomaly
                /\ \A k \in 1..Len(brand_keywords) :
                      (brand_keywords[k].name \in Range(row.explanation)) <=> (k \in matched)

\* "DeLL" is flagged with "dell" listed; "HP alga" lists "hp" and "lg"
C7_Witness ==
    /\ TextRunDone
    /\ \E i, j \in 1..Len(tenders) :
          /\ tenders[i].tender_description = <<"D","e","L","L">>
          /\ TextRowOf(tenders[i]).is_anomaly
          /\ "dell" \in Range(TextRowOf(tenders[i]).explanation)
          /\ {"hp", "lg"} \subseteq Range(TextRowOf(tenders[j]).explanation)

\* C8: the collusion signal fires for a tender iff some other tender is in
\* the band; the tender is never among its own matches; the explanation
\* gives the number of matches and at most 3 of their ids.
C8_CollusionCountsOthersOnly ==
    TextRunDone =>
        LET ts == TenderDB_get_all(tenders)
        IN  \A i \in 1..Len(ts) :
                LET row    == TextRowOf(ts[i])
                    others == {u \in (1..Len(ts)) \ {i} : InBand(tfidf.output[i][u])}
                    listed == {u \in others : ts[u].tender_id \in Range(row.explanation)}
                IN  /\ (CollusionMarker \in Range(row.explanation)) <=> (others # {})
                    /\ ts[i].tender_id \notin Range(row.explanation)
                    /\ others # {} =>
                          /\ ToString(Cardinality(others)) \in Range(row.explanation)
                          /\ Cardinality(listed) = IF Cardinality(others) < 3
                                                   THEN Cardinality(others) ELSE 3

\* C9: is_anomaly iff a signal fired; the score is min(1.0, 0.5 for brand
\* bias + the largest similarity among the collusion matches), so within
\* [0, 1] and 0 exactly for the unflagged.
C9_TextScore ==
    TextRunDone =>
        LET ts == TenderDB_get_all(tenders)
        IN  \A i \in 1..Len(ts) :
                LET row       == TextRowOf(ts[i])
                    brand     == BrandMarker \in Range(row.explanation)
                    collusion == CollusionMarker \in Range(row.explanation)
                    matches   == {tfidf.output[i][u] : u \in {v \in 1..Len(ts) :
                                                              InBand(tfidf.output[i][v])}}
                    best      == IF collusion /\ matches # {} THEN SetMax(matches) ELSE 0
                    sum       == (IF brand THEN Scale \div 2 ELSE 0) + best
                IN  /\ row.is_anomaly <=> (brand \/ collusion)
                    /\ row.anomaly_score = <<IF sum < Scale THEN sum ELSE Scale>>
                    /\ row.anomaly_score[1] >= 0 /\ row.anomaly_score[1] <= Scale
                    /\ (row.anomaly_score[1] = 0) <=> ~row.is_anomaly

\* both signals on one tender, the sum capped at 1.0, beside a tender with
\* the collusion signal alone
C9_Witness ==
    /\ TextRunDone
    /\ \E i, j \in 1..Len(tenders) :
          /\ {BrandMarker, CollusionMarker} \subseteq Range(TextRowOf(tenders[i]).explanation)
          /\ TextRowOf(tenders[i]).anomaly_score = <<Scale>>
          /\ BrandMarker \notin Range(TextRowOf(tenders[j]).explanation)
          /\ TextRowOf(tenders[j]).is_anomaly
          /\ TextRowOf(tenders[j]).anomaly_score[1] < Scale

(***************************************************************************)
(* Properties of the process detector.                                     *)
(***************************************************************************)
ProcessRunDone == resp.op = "process" /\ resp.status = 200

ProcessRowOf(tender) ==
    CHOOSE r \in Range(rows_of("process", audit_results)) : r.tender_id = tender.tender_id

Count(fragment, explanation) ==
    Cardinality({k \in 1..Len(explanation) : explanation[k] = fragment})

\* C10: the explanation of a flagged tender is the joined list of exactly
\* the rules it triggers (duration < 14, bidders <= 2, method Restricted);
\* that of an unflagged tender is the fixed message.
C10_ProcessExplanation ==
    ProcessRunDone =>
        \A i \in 1..Len(tenders) :
            LET t     == tenders[i]
                e     == ProcessRowOf(t).explanation
                short == t.tender_duration_days < 14
                low   == t.number_of_bidders <= 2
                restricted == t.procurement_method = "Restricted"
                triggered == (IF short THEN 1 ELSE 0) + (IF low THEN 1 ELSE 0)
                               + (IF restricted THEN 1 ELSE 0)
            IN  IF ProcessRowOf(t).is_anomaly
                THEN /\ Count("Very short duration (", e) = IF short THEN 1 ELSE 0
                     /\ Count("Low competition (", e) = IF low THEN 1 ELSE 0
                     /\ Count("Restricted tender method", e) = IF restricted THEN 1 ELSE 0
                     /\ Count(" | ", e) = IF triggered = 0 THEN 0 ELSE triggered - 1
                     /\ Len(e) = (IF short THEN 3 ELSE 0) + (IF low THEN 3 ELSE 0)
                                   + (IF restricted THEN 1 ELSE 0) + Count(" | ", e)
                     /\ short => ToString(t.tender_duration_days) \in Range(e)
                     /\ low => ToString(t.number_of_bidders) \in Range(e)
                ELSE e = <<"Normal procurement process">>

\* a flagged tender that triggers the three rules, beside an unflagged
\* tender that triggers one
C10_Witness ==
    /\ ProcessRunDone
    /\ \E i, j \in 1..Len(tenders) :
          /\ ProcessRowOf(tenders[i]).is_anomaly
          /\ Count(" | ", ProcessRowOf(tenders[i]).explanation) = 2
          /\ ~ProcessRowOf(tenders[j]).is_anomaly
          /\ tenders[j].tender_duration_days < 14

(***************************************************************************)
(* routers/evaluation.py: evaluate_models.                                 *)
(*                                                                         *)
(* The handler reads the tenders and the audit results and writes nothing. *)
(* A pandas column is a record [dtype, values].  SQLite keeps a BOOLEAN as *)
(* the integers 0 and 1, so audit_df['is_anomaly'] is an int64 column.     *)
(* The response of the handler records, beside the status, the locals      *)
(* process_metrics (lines 40-50) as the handler left them: <<>> when an    *)
(* exception came before they were built.                                  *)
(***************************************************************************)
Series(dtype, values) == [dtype |-> dtype, values |-> values]

\* the BOOLEAN column of database.py as sqlite3 returns it
sqlite_boolean(b) == IF b THEN 1 ELSE 0

\* audit_df[audit_df['model_type'] == 'process'], in the order of get_all()
process_results_of(table) ==
    SelectSeq(AuditResultDB_get_all(table), LAMBDA r : r.model_type = "process")

\* process_results['is_anomaly']
is_anomaly_column(rows) ==
    Series("int64", [i \in 1..Len(rows) |-> sqlite_boolean(rows[i].is_anomaly)])

\* (tenders_df['tender_duration_days'] < 14) & (tenders_df['number_of_bidders'] <= 2)
y_true_of(ts) ==
    Series("bool", [i \in 1..Len(ts) |->
                       ts[i].tender_duration_days < 14 /\ ts[i].number_of_bidders <= 2])

\* sklearn's check_consistent_length: the metrics raise ValueError when
\* y_true and y_pred differ in length
inconsistent_lengths(y_true, y_pred) == Len(y_true) # Len(y_pred)

\* the positions where y_true is t and y_pred is p (labels as 0 / 1)
cell(y_true, y_pred, t, p) ==
    Cardinality({i \in 1..Len(y_pred) : sqlite_boolean(y_true[i]) = t /\ y_pred[i] = p})

\* cm = confusion_matrix(y_true, y_pred): one row and column per label
\* present in y_true or y_pred;
\* tn, fp, fn, tp = cm.ravel() if cm.size == 4 else (0, 0, 0, 0)
confusion_counts(y_true, y_pred) ==
    LET labels == {sqlite_boolean(y_true[i]) : i \in 1..Len(y_true)}
                    \cup {y_pred[i] : i \in 1..Len(y_pred)}
    IN  IF Cardinality(labels) * Cardinality(labels) = 4
        THEN [tn |-> cell(y_true, y_pred, 0, 0), fp |-> cell(y_true, y_pred, 0, 1),
              fn |-> cell(y_true, y_pred, 1, 0), tp |-> cell(y_true, y_pred, 1, 1)]
        ELSE [tn |-> 0, fp |-> 0, fn |-> 0, tp |-> 0]

\* a / b as a float, 0.0 when b is 0 (zero_division=0)
ratio(a, b) == IF b = 0 THEN 0 ELSE div_round(a * Scale, b)

\* accuracy_score, precision_score, recall_score, f1_score (pos_label 1) and
\* the counts: the dict process_metrics
process_metrics_of(y_true, y_pred) ==
    LET tp == cell(y_true, y_pred, 1, 1)
        fp == cell(y_true, y_pred, 0, 1)
        fn == cell(y_true, y_pred, 1, 0)
        tn == cell(y_true, y_pred, 0, 0)
        cm == confusion_counts(y_true, y_pred)
    IN  [accuracy  |-> ratio(tp + tn, Len(y_pred)),
         precision |-> ratio(tp, tp + fp),
         recall    |-> ratio(tp, tp + fn),
         f1Score   |-> ratio(2 * tp, 2 * tp + fp + fn),
         truePositives |-> cm.tp, trueNegatives |-> cm.tn,
         falsePositives |-> cm.fp, falseNegatives |-> cm.fn]

\* df[key] with a Series key selects rows only if the key is boolean; a key
\* of another dtype is read as column labels, and 0 and 1 are no columns
DataFrame_getitem_raises(key) == key.dtype # "bool"

EvaluationResponse(e, handled, metrics) ==
    [op |-> "evaluate", status |-> handled.status_code, raised |-> e,
     total_processed |-> 0, anomalies_found |-> 0, repeat |-> FALSE,
     process_metrics |-> metrics]

\* the handler that clears the results it has evaluated
evaluate_models_clearing(empty_scored) ==
    /\ resp' = EvaluationResponse(OtherException, except_Exception(OtherException), <<>>)
    /\ audit_results' = AuditResultDB_delete_all(audit_results)
    /\ UNCHANGED <<tenders, contracts, market_prices, now, forest, tfidf>>

\* empty_scored: whether sklearn scores two empty label arrays (as nan) or
\* raises on them
evaluate_models(empty_scored) ==
    LET ts == TenderDB_get_all(tenders)
        rs == AuditResultDB_get_all(audit_results)
        process_predictions == is_anomaly_column(process_results_of(audit_results))
        y_true         == y_true_of(ts)
        y_true_process == Take(y_true.values, Len(process_predictions.values))
        raised_in_metrics ==
            \/ inconsistent_lengths(y_true_process, process_predictions.values)
            \/ process_predictions.values = <<>> /\ ~empty_scored
    IN  /\ resp' =
            IF ts = <<>> \/ rs = <<>>
            THEN EvaluationResponse(HTTPException(404),
                                    except_Exception(HTTPException(404)), <<>>)
            ELSE IF raised_in_metrics
            THEN EvaluationResponse(OtherException, except_Exception(OtherException), <<>>)
            ELSE IF DataFrame_getitem_raises(process_predictions)
            THEN EvaluationResponse(OtherException, except_Exception(OtherException),
                     <<process_metrics_of(y_true_process, process_predictions.values)>>)
            ELSE [op |-> "evaluate", status |-> 200,
                  raised |-> [type |-> "", status_code |-> 0],
                  total_processed |-> Len(ts), anomalies_found |-> 0, repeat |-> FALSE,
                  process_metrics |->
                      <<process_metrics_of(y_true_process, process_predictions.values)>>]
        /\ UNCHANGED <<tenders, contracts, market_prices, audit_results, now,
                       forest, tfidf>>

(***************************************************************************)
(* The evaluation after runs of the process and text detectors, over       *)
(* tenders on both sides of the ground-truth rule.                         *)
(***************************************************************************)
EvalTenderRows ==
    {Tender(id, "Open", d[1], d[2], <<"p","c">>, <<>>) :
        id \in {"T1", "T2"}, d \in {<<13, 2>>, <<20, 3>>}}

ImportEvalTenders ==
    /\ Served
    /\ \E csv \in SeqsOf(EvalTenderRows, 1, MaxBatch), clearExisting \in BOOLEAN :
        import_data("tenders", csv, clearExisting)

EvalProcessAnomaly ==
    /\ Served
    /\ \E fresh \in [1..Len(tenders) -> IsoScores] : detect_process_anomalies(NoFault, fresh)

EvalTextAnomaly ==
    /\ Served
    /\ detect_text_anomalies(NoFault, {Scale}, {(9 * Scale) \div 10})

EvaluateModels ==
    /\ Served
    /\ \E empty_scored \in BOOLEAN : evaluate_models(empty_scored)

NextEvaluation ==
    \/ ImportEvalTenders
    \/ EvalProcessAnomaly
    \/ EvalTextAnomaly
    \/ EvaluateModels

SpecEvaluation == Init /\ [][NextEvaluation]_vars

(***************************************************************************)
(* Properties of the evaluation.                                           *)
(***************************************************************************)
\* the handler got as far as building process_metrics
MetricsBuilt == resp.op = "evaluate" /\ resp.process_metrics # <<>>

\* C11: the confusion-matrix counts of the evaluation sum to the number of
\* compared records, and the accuracy is (tp + tn) over that number, also
\* when labels and predictions are all of one class.
C11_CountsSumToCompared ==
    MetricsBuilt =>
        LET m == resp.process_metrics[1]
            n == Len(process_results_of(audit_results))
        IN  /\ m.trueNegatives + m.falsePositives + m.falseNegatives + m.truePositives = n
            /\ m.accuracy = ratio(m.truePositives + m.trueNegatives, n)

\* C12: with tenders and process rows stored, the evaluation produces
\* metrics that compare the ground truth of the tenders with the stored
\* flags position by position over the first min(#tenders, #process rows)
\* positions.
C12_ComparedUpToShorter ==
    (resp.op = "evaluate" /\ tenders # <<>> /\ process_results_of(audit_results) # <<>>) =>
        LET ts == TenderDB_get_all(tenders)
            ps == process_results_of(audit_results)
            n  == IF Len(ts) < Len(ps) THEN Len(ts) ELSE Len(ps)
            agree == {i \in 1..n :
                        (ts[i].tender_duration_days < 14 /\ ts[i].number_of_bidders <= 2)
                            <=> ps[i].is_anomaly}
        IN  /\ resp.process_metrics # <<>>
            /\ resp.process_metrics[1].accuracy = ratio(Cardinality(agree), n)

\* C13: a request to the evaluation leaves the four tables as they were,
\* whatever its outcome.
C13_EvaluationReadOnly ==
    [][RunOf("evaluate") =>
          /\ tenders' = tenders
          /\ contracts' = contracts
          /\ market_prices' = market_prices
          /\ audit_results' = audit_results]_vars

\* the evaluation has answered over tenders and results of two detectors,
\* having built its metrics
C13_Witness ==
    /\ MetricsBuilt
    /\ tenders # <<>>
    /\ rows_of("process", audit_results) # <<>>
    /\ rows_of("text", audit_results) # <<>>

(***************************************************************************)
(* Runs of the process detector served at the same time (several workers   *)
(* on the one database file).  database.py opens a connection and commits  *)
(* in every call, so the calls of a run are the steps that interleave with *)
(* those of another run: TenderDB.get_all() with the computation,          *)
(* AuditResultDB.get_all(), AuditResultDB.delete_all(), and each           *)
(* AuditResultDB.insert().  The tenders are imported before any run starts *)
(* and not changed afterwards.                                             *)
(***************************************************************************)
ConcurrentTenderRows ==
    {Tender("T1", "Open", 20, 3, <<"p","c">>, <<>>),
     Tender("T2", "Restricted", 10, 1, <<"p","c">>, <<>>)}

ImportConcurrentTenders ==
    /\ \A r \in Runs : runs[r].pc = "idle"
    /\ Served
    /\ \E csv \in SeqsOf(ConcurrentTenderRows, 1, MaxBatch) :
        import_data("tenders", csv, TRUE)

\* tenders = TenderDB.get_all() ... anomalies = predictions == -1
StartRun(r) ==
    /\ runs[r].pc \in {"idle", "done"}
    /\ tenders # <<>>
    /\ requests < MaxRequests
    /\ requests' = requests + 1
    /\ \E fresh \in [1..Len(tenders) -> IsoScores] :
        LET ts        == TenderDB_get_all(tenders)
            X         == feature_matrix(ts)
            scores    == IsolationForest_score_samples(forest, X, fresh)
            anomalies == IsolationForest_anomalies(scores)
        IN  /\ forest' = [input |-> <<random_state, X>>, output |-> scores]
            /\ runs' = [runs EXCEPT ![r] =
                          [pc |-> "scan", found |-> FALSE, k |-> 0,
                           results |-> [i \in 1..Len(ts) |->
                                           process_result(ts[i], anomalies[i], scores[i])]]]
    /\ UNCHANGED <<tenders, contracts, market_prices, audit_results, now, tfidf, resp>>

\* audit_results = AuditResultDB.get_all(); the loop that looks for a row
\* of model type 'process'
ScanResults(r) ==
    /\ runs[r].pc = "scan"
    /\ LET found == \E i \in 1..Len(AuditResultDB_get_all(audit_results)) :
                        AuditResultDB_get_all(audit_results)[i].model_type = "process"
       IN  runs' = [runs EXCEPT ![r].pc = IF found THEN "delete" ELSE "insert",
                                ![r].found = found]
    /\ UNCHANGED <<tenders, contracts, market_prices, audit_results, now, forest, tfidf,
                   resp, requests>>

\* AuditResultDB.delete_all(); break
DeleteResults(r) ==
    /\ runs[r].pc = "delete"
    /\ audit_results' = AuditResultDB_delete_all(audit_results)
    /\ runs' = [runs EXCEPT ![r].pc = "insert"]
    /\ UNCHANGED <<tenders, contracts, market_prices, now, forest, tfidf, resp, requests>>

\* one AuditResultDB.insert of the loop; after the last one the handler
\* returns
InsertResult(r) ==
    /\ runs[r].pc = "insert"
    /\ LET k    == runs[r].k + 1
           last == k = Len(runs[r].results)
       IN  /\ audit_results' = AuditResultDB_insert(audit_results, runs[r].results[k], now)
           /\ runs' = [runs EXCEPT ![r].k = k, ![r].pc = IF last THEN "done" ELSE "insert"]
           /\ resp' = IF last
                      THEN Success("process", Len(runs[r].results),
                                   count_anomalies(runs[r].results))
                      ELSE resp
    /\ UNCHANGED <<tenders, contracts, market_prices, now, forest, tfidf, requests>>

Start == \E r \in Runs : StartRun(r)

Scan == \E r \in Runs : ScanResults(r)

Delete == \E r \in Runs : DeleteResults(r)

Insert == \E r \in Runs : InsertResult(r)

NextConcurrent ==
    \/ ImportConcurrentTenders
    \/ Start
    \/ Scan
    \/ Delete
    \/ Insert

SpecConcurrent == Init /\ [][NextConcurrent]_vars

\* all the runs have returned
AllCompleted == \A r \in Runs : runs[r].pc = "done"

\* C14: once the concurrent runs of the process detector have all
\* completed, the store holds for model type process one row per tender,
\* none twice and none missing.
C14_LastWriterWins ==
    AllCompleted =>
        /\ Len(stored_keys("process")) = Len(input_keys("process"))
        /\ Range(stored_keys("process")) = Range(input_keys("process"))

\* C15: when a run of detector X has ended, the stored rows of model type
\* X are the complete new result set if it succeeded, and the rows that
\* were there before it if it failed.
C15_AllOrNothing ==
    [][\A X \in Detectors : RunOf(X) =>
          IF resp'.status = 200
          THEN Len(rows_of(X, audit_results')) = Len(input_keys(X))
          ELSE content(rows_of(X, audit_results')) = content(rows_of(X, audit_results))]_vars

(***************************************************************************)
(* The detectors over rows that reached the store without the validation   *)
(* of import_data: TenderDB.insert, ContractDB.insert and                  *)
(* MarketPriceDB.insert take any dict, and the schema of init_db has no    *)
(* CHECK on duration, bidders, method or price.                            *)
(***************************************************************************)
\* XxxDB.insert(row) of database.py, called on its own
DB_insert(dataType, row) ==
    LET done == insert_rows(table_of(dataType), <<row>>, unique_key(dataType), now)
    IN  /\ Len(done.table) <= capacity_of(dataType)
        /\ tenders' = IF dataType = "tenders" THEN done.table ELSE tenders
        /\ contracts' = IF dataType = "contracts" THEN done.table ELSE contracts
        /\ market_prices' = IF dataType = "market_prices" THEN done.table
                            ELSE market_prices
        /\ resp' = IF done.ok THEN Success("insert", 1, 0)
                   ELSE Failure("insert", OtherException, OtherException)
        /\ forest' = IF dataType = "tenders" /\ done.table # tenders THEN no_fit ELSE forest
        /\ tfidf' = IF dataType = "tenders" /\ done.table # tenders THEN no_fit ELSE tfidf
        /\ UNCHANGED <<audit_results, now>>

StoredTenderRows ==
    {Tender("T1", "Open", 20, 3, <<"p","c">>, <<>>),
     Tender("T2", "Open", 0, 3, <<"p","c">>, <<>>),
     Tender("T2", "Open", 20, -1, <<"p","c">>, <<>>),
     Tender("T2", "Direct", 20, 3, <<"p","c">>, <<>>)}

StoredContractRows ==
    {Contract("C1", "T1", <<"a","1">>, 100, 1),
     Contract("C2", "T1", <<"a","1">>, 0, 1)}

StoredMarketPriceRows == {MarketPrice(<<"a","1">>, p) : p \in {90, 110}}

StoreTender == Served /\ \E row \in StoredTenderRows : DB_insert("tenders", row)

StoreContract == Served /\ \E row \in StoredContractRows : DB_insert("contracts", row)

StoreMarketPrice ==
    Served /\ \E row \in StoredMarketPriceRows : DB_insert("market_prices", row)

StoredProcessAnomaly ==
    /\ Served
    /\ \E fresh \in [1..Len(tenders) -> IsoScores] : detect_process_anomalies(NoFault, fresh)

StoredPriceAnomaly == Served /\ detect_price_anomalies(NoFault)

NextStored ==
    \/ StoreTender
    \/ StoreContract
    \/ StoreMarketPrice
    \/ StoredProcessAnomaly
    \/ StoredPriceAnomaly

SpecStored == Init /\ [][NextStored]_vars

\* the input of detector X holds a record with a feature out of its range
OutOfRange(X) ==
    IF X = "process"
    THEN \E i \in 1..Len(tenders) :
            \/ tenders[i].tender_duration_days <= 0
            \/ tenders[i].number_of_bidders < 0
            \/ tenders[i].procurement_method \notin {"Open", "Restricted"}
    ELSE \/ \E i \in 1..Len(contracts) : contracts[i].unit_price <= 0
         \/ \E i \in 1..Len(market_prices) : market_prices[i].unit_price <= 0

\* C16: a run of the process or price detector over an input that holds an
\* out-of-range record reports an error and writes no result row.
C16_InvalidInputFailsRun ==
    [][\A X \in {"process", "price"} : (RunOf(X) /\ OutOfRange(X)) =>
          /\ resp'.status # 200
          /\ audit_results' = audit_results]_vars

(***************************************************************************)
(* routers/models.py: run_all_models awaits the three handlers one after   *)
(* the other.  A handler called from run_all is the same code as the       *)
(* endpoint; here it is a function of the store it finds, giving the store *)
(* it leaves, whether it returned (ok) or raised, and the rows it inserted *)
(* (written), so that the three can be chained in one step.                *)
(***************************************************************************)
StageRaised(table) ==
    [audit_results |-> table, ok |-> FALSE, written |-> <<>>, found |-> 0]

StageStored(table, model_type, results, fault) ==
    [audit_results |-> store_results(table, model_type, results, fault, now),
     ok |-> fault.at # "insert",
     written |-> IF fault.at = "insert" THEN Take(results, fault.k) ELSE results,
     found |-> count_anomalies(results)]

\* await detect_process_anomalies()
process_stage(table, scores, fault) ==
    LET ts        == TenderDB_get_all(tenders)
        anomalies == IsolationForest_anomalies(scores)
        results   == [i \in 1..Len(ts) |-> process_result(ts[i], anomalies[i], scores[i])]
    IN  IF ts = <<>> \/ fault.at = "compute" THEN StageRaised(table)
        ELSE StageStored(table, "process", results, fault)

\* await detect_price_anomalies()
price_stage(table, fault) ==
    LET cs      == ContractDB_get_all(contracts)
        ms      == MarketPriceDB_get_all(market_prices)
        stats   == market_stats(ms)
        results == [i \in 1..Len(cs) |-> price_result(cs[i], stats)]
    IN  IF cs = <<>> \/ ms = <<>> \/ fault.at = "compute" THEN StageRaised(table)
        ELSE StageStored(table, "price", results, fault)

\* await detect_text_anomalies()
text_stage(table, similarity_matrix, fault) ==
    LET ts      == TenderDB_get_all(tenders)
        results == [i \in 1..Len(ts) |-> text_result(ts, i, similarity_matrix[i])]
    IN  IF ts = <<>> \/ fault.at = "compute" THEN StageRaised(table)
        ELSE StageStored(table, "text", results, fault)

\* the stage that is not reached: the exception of an earlier one left the
\* try block
StageSkipped(table) == StageRaised(table)

\* the model types of the rows inserted, in order
writes_of(stage) ==
    [i \in 1..Len(stage.written) |-> stage.written[i].model_type]

\* the response of run_all; `writes` records the inserts of the request in
\* the order they were made
RunAllResponse(ok, writes, found) ==
    [op |-> "run_all", status |-> IF ok THEN 200 ELSE 500,
     raised |-> IF ok THEN [type |-> "", status_code |-> 0] ELSE HTTPException(500),
     total_processed |-> Len(writes), anomalies_found |-> found, repeat |-> FALSE,
     writes |-> writes]

\* run_all that goes on to the next detector when one has failed
run_all_models_continuing(faults, fresh, diag, off) ==
    LET ts     == TenderDB_get_all(tenders)
        X      == feature_matrix(ts)
        texts  == [i \in 1..Len(ts) |-> combined_text(ts[i])]
        scores == IsolationForest_score_samples(forest, X, fresh)
    IN  \E matrix \in (IF tfidf.input = texts THEN {tfidf.output}
                       ELSE similarity_matrices(texts, diag, off)) :
        LET p == process_stage(audit_results, scores, faults[1])
            c == price_stage(p.audit_results, faults[2])
            t == text_stage(c.audit_results, cosine_similarity(tfidf, texts, matrix),
                            faults[3])
        IN  /\ audit_results' = t.audit_results
            /\ forest' = IF ts # <<>> /\ faults[1].at # "compute"
                         THEN [input |-> <<random_state, X>>, output |-> scores]
                         ELSE forest
            /\ tfidf' = IF ts # <<>> /\ faults[3].at # "compute"
                        THEN [input |-> texts,
                              output |-> cosine_similarity(tfidf, texts, matrix)]
                        ELSE tfidf
            /\ resp' = RunAllResponse(p.ok /\ c.ok /\ t.ok,
                                      writes_of(p) \o writes_of(c) \o writes_of(t),
                                      p.found + c.found + t.found)
            /\ UNCHANGED <<tenders, contracts, market_prices, now>>

\* process_result = await detect_process_anomalies()
\* price_result = await detect_price_anomalies()
\* text_result = await detect_text_anomalies()
run_all_models(faults, fresh, diag, off) ==
    LET ts     == TenderDB_get_all(tenders)
        X      == feature_matrix(ts)
        texts  == [i \in 1..Len(ts) |-> combined_text(ts[i])]
        scores == IsolationForest_score_samples(forest, X, fresh)
    IN  \E matrix \in (IF tfidf.input = texts THEN {tfidf.output}
                       ELSE similarity_matrices(texts, diag, off)) :
        LET p == process_stage(audit_results, scores, faults[1])
            c == IF p.ok THEN price_stage(p.audit_results, faults[2])
                 ELSE StageSkipped(p.audit_results)
            t == IF p.ok /\ c.ok
                 THEN text_stage(c.audit_results, cosine_similarity(tfidf, texts, matrix),
                                 faults[3])
                 ELSE StageSkipped(c.audit_results)
        IN  /\ audit_results' = t.audit_results
            /\ forest' = IF ts # <<>> /\ faults[1].at # "compute"
                         THEN [input |-> <<random_state, X>>, output |-> scores]
                         ELSE forest
            /\ tfidf' = IF p.ok /\ c.ok /\ ts # <<>> /\ faults[3].at # "compute"
                        THEN [input |-> texts,
                              output |-> cosine_similarity(tfidf, texts, matrix)]
                        ELSE tfidf
            /\ resp' = RunAllResponse(p.ok /\ c.ok /\ t.ok,
                                      writes_of(p) \o writes_of(c) \o writes_of(t),
                                      p.found + c.found + t.found)
            /\ UNCHANGED <<tenders, contracts, market_prices, now>>

(***************************************************************************)
(* run_all after imports of the three tables, with an exception in at most *)
(* one of the three detectors.                                             *)
(***************************************************************************)
RunAllFaults ==
    {<<f, NoFault, NoFault>> : f \in Faults(Len(tenders))}
        \cup {<<NoFault, f, NoFault>> : f \in Faults(Len(contracts))}
        \cup {<<NoFault, NoFault, f>> : f \in Faults(Len(tenders))}

RunAll ==
    /\ Served
    /\ \E faults \in RunAllFaults, fresh \in [1..Len(tenders) -> IsoScores] :
        run_all_models(faults, fresh, {Scale}, {(9 * Scale) \div 10})

ImportRunAllContracts ==
    /\ Served
    /\ \E csv \in SeqsOf(ContractRows, 1, 1) : import_data("contracts", csv, FALSE)

NextRunAll ==
    \/ ImportTenders
    \/ ImportRunAllContracts
    \/ ImportMarketPrices
    \/ RunAll

SpecRunAll == Init /\ [][NextRunAll]_vars

StageOrder == <<"process", "price", "text">>

StageRank(X) == CHOOSE k \in 1..Len(StageOrder) : StageOrder[k] = X

\* the request wrote a row of model type X for every record X reads
WroteAll(X) ==
    /\ input_keys(X) # <<>>
    /\ Cardinality({i \in 1..Len(resp.writes) : resp.writes[i] = X}) = Len(input_keys(X))

WroteNone(X) == \A i \in 1..Len(resp.writes) : resp.writes[i] # X

\* C17: run-all writes in the order process, price, text, each detector's
\* rows only after all the rows of the one before; once a detector has
\* failed no later one writes a row, and the response is a failure.
C17_RunAllInOrder ==
    resp.op = "run_all" =>
        /\ \A i, j \in 1..Len(resp.writes) :
              i < j => StageRank(resp.writes[i]) <= StageRank(resp.writes[j])
        /\ ~WroteNone("price") => WroteAll("process")
        /\ ~WroteNone("text") => WroteAll("price")
        /\ ~WroteAll("process") =>
              WroteNone("price") /\ WroteNone("text") /\ resp.status # 200
        /\ ~WroteAll("price") => WroteNone("text") /\ resp.status # 200
        /\ ~WroteAll("text") => resp.status # 200

\* a run-all that went through the three detectors, over two tenders
C17_Witness ==
    /\ resp.op = "run_all" /\ resp.status = 200
    /\ Len(tenders) = 2
    /\ WroteAll("process") /\ WroteAll("price") /\ WroteAll("text")

\* a table detector X requires is empty
EmptyInputOf(X) ==
    IF X = "price" THEN contracts = <<>> \/ market_prices = <<>> ELSE tenders = <<>>

\* C18: a detector invoked while a table it requires is empty fails and
\* leaves the audit results as they were: no row of any model type is
\* removed and none is added.
C18_EmptyInputKeepsStore ==
    [][\A X \in Detectors : (RunOf(X) /\ EmptyInputOf(X)) =>
          /\ resp'.status # 200
          /\ audit_results' = audit_results]_vars

\* the price detector has failed for want of contracts or market prices
\* while the store held rows
C18_Witness ==
    /\ resp.op = "price" /\ resp.status # 200
    /\ EmptyInputOf("price")
    /\ resp.raised = HTTPException(404)
    /\ audit_results # <<>>

\* C19: every audit-result row in the store has a non-empty explanation,
\* also the row of a tender the process detector flags while none of its
\* three rules triggers.
C19_ExplanationNonEmpty ==
    \A i \in 1..Len(audit_results) : audit_results[i].explanation # <<>>

\* C20: after a run of the price detector every price row carries a score
\* that is a number, at least 0, and 0 when the contract has no matching
\* market population; also when the population is a single sample.
C20_PriceScoreDefined ==
    PriceRunDone =>
        \A i \in 1..Len(contracts) :
            LET score == PriceRowOf(contracts[i]).anomaly_score
            IN  /\ score # NULL
                /\ score[1] >= 0
                /\ Population(contracts[i]) = <<>> => score[1] = 0

====
